---- MODULE Spec2Model ----
(***************************************************************************)
(* Verification model of lios: the multiprocessing compatibility           *)
(* controller (src/lios/mp_compat.py) and the OCR engine base class        *)
(* (src/lios/ocr/ocr_engine_base.py).                                      *)
(*                                                                         *)
(* The interpreter's multiprocessing module is modelled as CPython         *)
(* implements it on POSIX hosts, the platform mp_compat.py addresses (its  *)
(* docstring is about the default changing from 'fork' to 'forkserver'):   *)
(*   get_start_method(allow_none=True) returns the context that was set,   *)
(*     or None when none was set;                                          *)
(*   set_start_method(m, force) raises RuntimeError('context has already   *)
(*     been set') when a context was set and force is false, and otherwise *)
(*     sets the context to m ('fork' is always available on POSIX).        *)
(***************************************************************************)
EXTENDS Integers, Sequences, FiniteSets, TLC

(* ------------------------------ bounds --------------------------------- *)
\* runtime versions are (major, minor, micro) with major in 3..MaxMajor,
\* minor in 13..MaxMinor and micro in 0..MaxMicro
MaxMajor == 4
MaxMinor == 14
MaxMicro == 0
\* initialize() calls of one behaviour of Spec
MaxCalls == 3
\* facade calls of one behaviour of Spec
MaxOcrCalls == 2
\* concurrent callers of SpecRace
NumCallers == 2

(* ------------------------- program constants --------------------------- *)
\* `major == 3 and minor >= 14 or major > 3`
WorkaroundMajor == 3
WorkaroundMinor == 14

None == "None"
Unread == "unread"
\* an attribute that was never assigned
Absent == "absent"
\* Python's False, as stored in a slot
False == "False"
StartMethods == {"fork", "spawn", "forkserver"}
Versions == (3..MaxMajor) \X (13..MaxMinor) \X (0..MaxMicro)
Languages == {"eng", "mal"}
Images == {"a.png", "b.png"}
\* values passed as the language argument: the supported ones, one that is
\* not supported, and None (the constructor's default)
LanguageArgs == Languages \cup {"xx", None}
WrapperArgs == {"job1", "job2"}
Callers == 1..NumCallers

NoExc == [type |-> "none", msg |-> ""]
AlreadySet == [type |-> "RuntimeError", msg |-> "context has already been set"]

VARIABLES
  _python_version,   \* MultiprocessingCompatibility._python_version
  _initialized,      \* MultiprocessingCompatibility._initialized
  start_method,      \* multiprocessing's context: None or a start method
  language,          \* OcrEngineBase.language of the engine in use
  inline_calls,      \* ocr_image_to_text runs in the caller's process
  isolated_calls,    \* recognitions dispatched to a worker process
  ocr_ret,           \* value returned by the last facade call
  last_image,        \* image_file_name of the last facade call
  last_op,           \* the operation the sequential caller ran last
  last_force,        \* its force argument
  last_ret,          \* what it returned
  last_raised,       \* whether it raised
  pre_method,        \* start method before it / before the race
  pre_initialized,   \* _initialized before it
  status,            \* the last get_status() dict
  calls,             \* number of initialize() calls so far
  quiet,             \* only unforced calls, nobody else set the method since
  first_status,      \* get_status() right after the first initialize()
  pc,                \* per concurrent caller: position inside initialize()
  current_method,    \* per concurrent caller: local current_method
  ret,               \* per concurrent caller: returned value
  language_2,        \* OcrEngineBase.language_2: Absent until first assigned
  language_3,        \* OcrEngineBase.language_3: Absent until first assigned
  support_multiple,  \* support_multiple_languages() of the engine's type
  last_arg,          \* argument of the last engine or wrapper call
  pre_slots,         \* the three slots before the last engine call
  func_calls,        \* calls of the function ensure_fork_context wraps
  wrapper_ret        \* value the wrapper returned last

vars == <<_python_version, _initialized, start_method, language, inline_calls,
          isolated_calls, ocr_ret, last_image, last_op, last_force, last_ret, last_raised,
          pre_method, pre_initialized, status, calls, quiet, first_status,
          pc, current_method, ret, language_2, language_3, support_multiple,
          last_arg, pre_slots, func_calls, wrapper_ret>>

ctlVars == <<_python_version, _initialized, start_method>>
engineVars == <<language, inline_calls, isolated_calls, ocr_ret, last_image>>
histVars == <<last_op, last_force, last_ret, last_raised, pre_method,
              pre_initialized, status, calls, quiet, first_status>>
raceVars == <<pc, current_method, ret>>
slotVars == <<language_2, language_3, support_multiple, last_arg, pre_slots>>
wrapVars == <<func_calls, wrapper_ret>>

(* ----------------------- multiprocessing library ----------------------- *)
\* multiprocessing.get_start_method(allow_none=True)
get_start_method(ctx) == ctx

\* multiprocessing.set_start_method(method, force): the exception it raises
set_start_method_exc(ctx, force) ==
  IF ctx # None /\ ~force THEN AlreadySet ELSE NoExc

\* multiprocessing.set_start_method(method, force): exception and new context
set_start_method(ctx, method, force) ==
  LET e == set_start_method_exc(ctx, force)
  IN  [exc |-> e, ctx |-> IF e = NoExc THEN method ELSE ctx]

(* ------------------- MultiprocessingCompatibility ---------------------- *)
get_python_version_info(v) == <<v[1], v[2], v[3]>>

\* variant: `major == 3 and (minor >= 14 or major > 3)`
needs_fork_workaround_paren(v) ==
  LET major == get_python_version_info(v)[1]
      minor == get_python_version_info(v)[2]
  IN  major = WorkaroundMajor
        /\ (minor >= WorkaroundMinor \/ major > WorkaroundMajor)

\* variant: the workaround applied one minor release early
needs_fork_workaround_early(v) ==
  LET major == get_python_version_info(v)[1]
      minor == get_python_version_info(v)[2]
  IN  (major = WorkaroundMajor /\ minor >= WorkaroundMinor - 1)
        \/ major > WorkaroundMajor

needs_fork_workaround(v) ==
  LET major == get_python_version_info(v)[1]
      minor == get_python_version_info(v)[2]
  IN  (major = WorkaroundMajor /\ minor >= WorkaroundMinor)
        \/ major > WorkaroundMajor

\* variant: `if cls._initialized: return True`
already_done_ignores_force(init, force) == init

\* `if cls._initialized and not force: return True`
already_done(init, force) == init /\ ~force

\* variant: `multiprocessing.set_start_method('fork')`
force_arg_dropped(force) == FALSE

\* variant: `multiprocessing.set_start_method('fork', force=True)`
force_arg_always(force) == TRUE

\* the force argument of `multiprocessing.set_start_method('fork', force=force)`
force_arg(force) == force

\* `if current_method != 'fork'`
must_set(cur) == cur # "fork"

\* variant: the except clause without the "already set" case
handle_error_no_absorb(exc, force) ==
  IF exc.type # "RuntimeError"
  THEN [caught |-> FALSE, ret |-> FALSE, init |-> FALSE]
  ELSE [caught |-> TRUE, ret |-> FALSE, init |-> FALSE]

\* variant: an except clause that does not catch RuntimeError
handle_error_uncaught(exc, force) ==
  [caught |-> FALSE, ret |-> FALSE, init |-> FALSE]

\* variant: the "already set" case taken with force instead of without
handle_error_force_only(exc, force) ==
  IF exc.type # "RuntimeError"
  THEN [caught |-> FALSE, ret |-> FALSE, init |-> FALSE]
  ELSE IF exc.msg = AlreadySet.msg /\ force
       THEN [caught |-> TRUE, ret |-> TRUE, init |-> TRUE]
       ELSE [caught |-> TRUE, ret |-> FALSE, init |-> FALSE]

\* the except clause: [caught, ret, sets _initialized]
handle_error(exc, force) ==
  IF exc.type # "RuntimeError"
  THEN [caught |-> FALSE, ret |-> FALSE, init |-> FALSE]
  ELSE IF exc.msg = AlreadySet.msg /\ ~force
       THEN [caught |-> TRUE, ret |-> TRUE, init |-> TRUE]
       ELSE [caught |-> TRUE, ret |-> FALSE, init |-> FALSE]

\* variant: the start method of the interpreter's new default
ForkMethod_forkserver == "forkserver"

\* the method of `multiprocessing.set_start_method('fork', force=force)`
ForkMethod == "fork"

\* variant: `cls._initialized = not force`
mark_unless_forced(init, force) == ~force

\* `cls._initialized = True` (lines 94, 101 and 109): the value stored
mark(init, force) == TRUE

\* initialize(force) run without interruption:
\* [ret, raised, method, init] = returned value, whether an exception
\* escaped, and the start method and _initialized it leaves
initialize(v, ctx, init, force) ==
  IF already_done(init, force)
  THEN [ret |-> TRUE, raised |-> FALSE, method |-> ctx, init |-> init]
  ELSE IF needs_fork_workaround(v)
       THEN LET cur == get_start_method(ctx)
            IN  IF must_set(cur)
                THEN LET r == set_start_method(ctx, ForkMethod,
                                               force_arg(force))
                         h == handle_error(r.exc, force)
                     IN  IF r.exc = NoExc
                         THEN [ret |-> TRUE, raised |-> FALSE,
                               method |-> r.ctx, init |-> mark(init, force)]
                         ELSE [ret |-> h.ret, raised |-> ~h.caught,
                               method |-> r.ctx,
                               init |-> IF h.init THEN mark(init, force)
                                        ELSE init]
                ELSE [ret |-> TRUE, raised |-> FALSE, method |-> ctx,
                      init |-> mark(init, force)]
       ELSE [ret |-> TRUE, raised |-> FALSE, method |-> ctx,
             init |-> mark(init, force)]

\* the function ensure_fork_context wraps: its result is determined by its
\* arguments and by the start method and flag it finds when it runs
func(arg, ctx, init) == <<"result", arg, ctx, init>>

\* variant: the wrapped function called before initialize()
ensure_fork_context_late(v, ctx, init, arg) ==
  LET r == initialize(v, ctx, init, FALSE)
  IN  [method |-> r.method, init |-> r.init, raised |-> r.raised,
       called |-> 1, ret |-> func(arg, ctx, init)]

\* wrapper(*args) of ensure_fork_context: initialize(), then func(*args)
ensure_fork_context(v, ctx, init, arg) ==
  LET r == initialize(v, ctx, init, FALSE)
  IN  [method |-> r.method, init |-> r.init, raised |-> r.raised,
       called |-> IF r.raised THEN 0 ELSE 1,
       ret |-> IF r.raised THEN None ELSE func(arg, r.method, r.init)]

VersionString(v) ==
  <<get_python_version_info(v)[1], ".", get_python_version_info(v)[2], ".",
    get_python_version_info(v)[3]>>

\* variant: `'compatible': current_method == 'fork'`
compatible_fork_only(v, ctx) == get_start_method(ctx) = "fork"

compatible(v, ctx) ==
  IF needs_fork_workaround(v) THEN get_start_method(ctx) = "fork" ELSE TRUE

get_status(v, ctx, init) ==
  [python_version |-> VersionString(v),
   python_version_tuple |-> get_python_version_info(v),
   needs_workaround |-> needs_fork_workaround(v),
   current_start_method |-> get_start_method(ctx),
   initialized |-> init,
   compatible |-> compatible(v, ctx)]

NoStatus == [initialized |-> "unknown"]

(* ----------------------------- OcrEngineBase --------------------------- *)
\* the concrete engine's ocr_image_to_text: a text determined by the
\* selected language and the image
ocr_image_to_text(lang, image) == <<"text", lang, image>>

\* variant: the recognition handed to a multiprocessing worker
facade_process_worker(v, ctx) == "worker"

\* ocr_image_to_text_with_multiprocessing: where the recognition runs
facade_process(v, ctx) == "caller"

\* get_available_languages() of the concrete engine type
get_available_languages == Languages

\* the instance's three slots
Slots == <<language, language_2, language_3>>

\* variant: None taken for a supported language
set_language_accepts_none(slots, lang) ==
  IF lang \in get_available_languages \cup {None}
  THEN [ret |-> TRUE, slots |-> [slots EXCEPT ![1] = lang]]
  ELSE [ret |-> FALSE, slots |-> slots]

\* variant: the failure path of slots 2 and 3 copied to slot 1
set_language_resets(slots, lang) ==
  IF lang \in get_available_languages
  THEN [ret |-> TRUE, slots |-> [slots EXCEPT ![1] = lang]]
  ELSE [ret |-> FALSE, slots |-> [slots EXCEPT ![1] = False]]

\* set_language(language): returned value and the slots it leaves
set_language(slots, lang) ==
  IF lang \in get_available_languages
  THEN [ret |-> TRUE, slots |-> [slots EXCEPT ![1] = lang]]
  ELSE [ret |-> FALSE, slots |-> slots]

\* variant: the failure path of slot 1 copied to slot 2
set_language_2_keeps(slots, lang) ==
  IF lang \in get_available_languages
  THEN [ret |-> TRUE, slots |-> [slots EXCEPT ![2] = lang]]
  ELSE [ret |-> FALSE, slots |-> slots]

\* variant: slot 2 refused while slot 1 holds a language
set_language_2_exclusive(slots, lang) ==
  IF lang \in get_available_languages
       /\ slots[1] \notin get_available_languages
  THEN [ret |-> TRUE, slots |-> [slots EXCEPT ![2] = lang]]
  ELSE [ret |-> FALSE, slots |-> [slots EXCEPT ![2] = False]]

\* set_language_2(language)
set_language_2(slots, lang) ==
  IF lang \in get_available_languages
  THEN [ret |-> TRUE, slots |-> [slots EXCEPT ![2] = lang]]
  ELSE [ret |-> FALSE, slots |-> [slots EXCEPT ![2] = False]]

\* variant: set_language_3 written as a copy of set_language_2 that still
\* assigns self.language_2
set_language_3_copied(slots, lang) ==
  IF lang \in get_available_languages
  THEN [ret |-> TRUE, slots |-> [slots EXCEPT ![2] = lang]]
  ELSE [ret |-> FALSE, slots |-> [slots EXCEPT ![2] = False]]

\* set_language_3(language)
set_language_3(slots, lang) ==
  IF lang \in get_available_languages
  THEN [ret |-> TRUE, slots |-> [slots EXCEPT ![3] = lang]]
  ELSE [ret |-> FALSE, slots |-> [slots EXCEPT ![3] = False]]

\* `def cancel():` declares no parameter
cancel_params == 0

\* a Python call raises TypeError when the number of positional arguments
\* is not the number of parameters
call_raises(nparams, nargs) == nparams # nargs

\* engine.cancel(): the bound call passes the instance as the one argument
cancel_raises == call_raises(cancel_params, 1)

(* ------------------------------- Init ---------------------------------- *)
InitCommon ==
  /\ _python_version \in Versions
  /\ _initialized = FALSE
  /\ start_method \in StartMethods \cup {None}
  /\ language \in LanguageArgs
  /\ inline_calls = 0
  /\ isolated_calls = 0
  /\ ocr_ret = None
  /\ last_image = None
  /\ last_op = "none"
  /\ last_force = FALSE
  /\ last_ret = TRUE
  /\ last_raised = FALSE
  /\ pre_method = start_method
  /\ pre_initialized = FALSE
  /\ status = NoStatus
  /\ calls = 0
  /\ quiet = TRUE
  /\ first_status = NoStatus
  /\ current_method = [t \in Callers |-> Unread]
  /\ ret = [t \in Callers |-> None]
  /\ language_2 = Absent
  /\ language_3 = Absent
  /\ support_multiple \in BOOLEAN
  /\ last_arg = None
  /\ pre_slots = <<language, Absent, Absent>>
  /\ func_calls = 0
  /\ wrapper_ret = None

Init ==
  /\ InitCommon
  /\ pc = [t \in Callers |-> "idle"]

(* ------------------------- sequential operations ----------------------- *)
\* MultiprocessingCompatibility.initialize(force); the module itself makes the
\* first unforced call when it is imported (line 158)
Initialize(force) ==
  /\ calls < MaxCalls
  /\ LET r == initialize(_python_version, start_method, _initialized, force)
     IN  /\ start_method' = r.method
         /\ _initialized' = r.init
         /\ last_ret' = r.ret
         /\ last_raised' = r.raised
         /\ first_status' =
              IF calls = 0
              THEN get_status(_python_version, r.method, r.init)
              ELSE first_status
  /\ last_op' = "initialize"
  /\ last_force' = force
  /\ pre_method' = start_method
  /\ pre_initialized' = _initialized
  /\ calls' = calls + 1
  /\ quiet' = (quiet /\ ~force)
  /\ UNCHANGED <<_python_version, status, engineVars, raceVars, slotVars,
                 wrapVars>>

\* MultiprocessingCompatibility.get_status()
GetStatus ==
  /\ status' = get_status(_python_version, start_method, _initialized)
  /\ last_op' = "get_status"
  /\ last_force' = FALSE
  /\ last_ret' = TRUE
  /\ last_raised' = FALSE
  /\ pre_method' = start_method
  /\ pre_initialized' = _initialized
  /\ UNCHANGED <<ctlVars, calls, quiet, first_status, engineVars, raceVars,
                 slotVars, wrapVars>>

\* another component of the process calls multiprocessing.set_start_method
OtherSetStartMethod(m, force) ==
  /\ set_start_method_exc(start_method, force) = NoExc
  /\ m # start_method
  /\ start_method' = set_start_method(start_method, m, force).ctx
  /\ last_op' = "set_start_method"
  /\ last_force' = force
  /\ last_ret' = TRUE
  /\ last_raised' = FALSE
  /\ pre_method' = start_method
  /\ pre_initialized' = _initialized
  /\ quiet' = (quiet /\ calls = 0)
  /\ UNCHANGED <<_python_version, _initialized, status, calls, first_status,
                 engineVars, raceVars, slotVars, wrapVars>>

\* OcrEngineBase.ocr_image_to_text_with_multiprocessing(image_file_name)
OcrWithMultiprocessing(image) ==
  /\ inline_calls + isolated_calls < MaxOcrCalls
  /\ LET where == facade_process(_python_version, start_method)
     IN  /\ inline_calls' = inline_calls + (IF where = "caller" THEN 1 ELSE 0)
         /\ isolated_calls' =
              isolated_calls + (IF where = "caller" THEN 0 ELSE 1)
  /\ ocr_ret' = ocr_image_to_text(language, image)
  /\ last_image' = image
  /\ last_op' = "ocr"
  /\ last_force' = FALSE
  /\ last_ret' = TRUE
  /\ last_raised' = FALSE
  /\ pre_method' = start_method
  /\ pre_initialized' = _initialized
  /\ UNCHANGED <<ctlVars, language, status, calls, quiet, first_status,
                 raceVars, slotVars, wrapVars>>

Next ==
  \/ \E force \in BOOLEAN : Initialize(force)
  \/ GetStatus
  \/ \E m \in StartMethods, force \in BOOLEAN : OtherSetStartMethod(m, force)
  \/ \E image \in Images : OcrWithMultiprocessing(image)

Spec == Init /\ [][Next]_vars

(* --------------------------- ensure_fork_context ----------------------- *)
\* a call of a function decorated with ensure_fork_context
WrapperCall(arg) ==
  /\ calls < MaxCalls
  /\ LET w == ensure_fork_context(_python_version, start_method,
                                  _initialized, arg)
     IN  /\ start_method' = w.method
         /\ _initialized' = w.init
         /\ last_raised' = w.raised
         /\ func_calls' = func_calls + w.called
         /\ wrapper_ret' = w.ret
         /\ first_status' =
              IF calls = 0
              THEN get_status(_python_version, w.method, w.init)
              ELSE first_status
  /\ last_op' = "wrapper"
  /\ last_force' = FALSE
  /\ last_ret' = TRUE
  /\ last_arg' = arg
  /\ pre_method' = start_method
  /\ pre_initialized' = _initialized
  /\ calls' = calls + 1
  /\ UNCHANGED <<_python_version, status, quiet, engineVars, raceVars,
                 language_2, language_3, support_multiple, pre_slots>>

NextWrapper ==
  \/ \E arg \in WrapperArgs : WrapperCall(arg)
  \/ \E force \in BOOLEAN : Initialize(force)
  \/ \E m \in StartMethods, force \in BOOLEAN : OtherSetStartMethod(m, force)

SpecWrapper == Init /\ [][NextWrapper]_vars

(* ------------------------ engine instance operations ------------------- *)
\* what the engine's slot operations leave alone
engineFrame ==
  <<ctlVars, inline_calls, isolated_calls, ocr_ret, last_image, last_force,
    pre_method, pre_initialized, status, calls, quiet, first_status,
    support_multiple, raceVars, wrapVars>>

\* engine.set_language(lang)
SetLanguage(lang) ==
  /\ LET r == set_language(Slots, lang)
     IN  /\ language' = r.slots[1]
         /\ language_2' = r.slots[2]
         /\ language_3' = r.slots[3]
         /\ last_ret' = r.ret
  /\ last_op' = "set_language"
  /\ last_arg' = lang
  /\ last_raised' = FALSE
  /\ pre_slots' = Slots
  /\ UNCHANGED engineFrame

\* engine.set_language_2(lang)
SetLanguage2(lang) ==
  /\ LET r == set_language_2(Slots, lang)
     IN  /\ language' = r.slots[1]
         /\ language_2' = r.slots[2]
         /\ language_3' = r.slots[3]
         /\ last_ret' = r.ret
  /\ last_op' = "set_language_2"
  /\ last_arg' = lang
  /\ last_raised' = FALSE
  /\ pre_slots' = Slots
  /\ UNCHANGED engineFrame

\* engine.set_language_3(lang)
SetLanguage3(lang) ==
  /\ LET r == set_language_3(Slots, lang)
     IN  /\ language' = r.slots[1]
         /\ language_2' = r.slots[2]
         /\ language_3' = r.slots[3]
         /\ last_ret' = r.ret
  /\ last_op' = "set_language_3"
  /\ last_arg' = lang
  /\ last_raised' = FALSE
  /\ pre_slots' = Slots
  /\ UNCHANGED engineFrame

\* engine.cancel(): the body is `pass`; the call raises when its arguments
\* do not fit the parameters of `def cancel():`
Cancel ==
  /\ LET r == [ret |-> TRUE, slots |-> Slots]
     IN  /\ language' = r.slots[1]
         /\ language_2' = r.slots[2]
         /\ language_3' = r.slots[3]
         /\ last_ret' = r.ret
  /\ last_op' = "cancel"
  /\ last_arg' = None
  /\ last_raised' = cancel_raises
  /\ pre_slots' = Slots
  /\ UNCHANGED engineFrame

NextEngine ==
  \/ \E lang \in LanguageArgs : SetLanguage(lang)
  \/ \E lang \in LanguageArgs : SetLanguage2(lang)
  \/ \E lang \in LanguageArgs : SetLanguage3(lang)
  \/ Cancel

SpecEngine == Init /\ [][NextEngine]_vars

(* ---------------- initialize() run by concurrent callers --------------- *)
\* Every caller runs initialize() with force=False; a step is one access to
\* the shared flag or to the shared start method.

\* lines 72-82: the test of _initialized, then the version test
RaceCheck(t) ==
  /\ pc[t] = "idle"
  /\ pc' = [pc EXCEPT ![t] =
             IF already_done(_initialized, FALSE) THEN "done"
             ELSE IF needs_fork_workaround(_python_version) THEN "get"
             ELSE "mark"]
  /\ ret' = [ret EXCEPT ![t] =
              IF already_done(_initialized, FALSE) THEN TRUE ELSE @]
  /\ UNCHANGED <<ctlVars, engineVars, slotVars, wrapVars, histVars, current_method>>

\* line 84-86: current_method = get_start_method(allow_none=True)
RaceGet(t) ==
  /\ pc[t] = "get"
  /\ current_method' =
       [current_method EXCEPT ![t] = get_start_method(start_method)]
  /\ pc' = [pc EXCEPT ![t] =
             IF must_set(get_start_method(start_method)) THEN "set_check"
             ELSE "mark"]
  /\ UNCHANGED <<ctlVars, engineVars, slotVars, wrapVars, histVars, ret>>

\* line 87, first half: set_start_method tests whether a context was set
RaceSetCheck(t) ==
  /\ pc[t] = "set_check"
  /\ pc' = [pc EXCEPT ![t] =
             IF set_start_method_exc(start_method, force_arg(FALSE)) = NoExc
             THEN "set_assign" ELSE "except"]
  /\ UNCHANGED <<ctlVars, engineVars, slotVars, wrapVars, histVars, current_method, ret>>

\* line 87, second half: set_start_method stores the context
RaceSetAssign(t) ==
  /\ pc[t] = "set_assign"
  /\ start_method' = ForkMethod
  /\ pc' = [pc EXCEPT ![t] = "mark"]
  /\ UNCHANGED <<_python_version, _initialized, engineVars, slotVars, wrapVars, histVars,
                 current_method, ret>>

\* lines 94-95 and 109-110: cls._initialized = True; return True
RaceMark(t) ==
  /\ pc[t] = "mark"
  /\ _initialized' = mark(_initialized, FALSE)
  /\ ret' = [ret EXCEPT ![t] = TRUE]
  /\ pc' = [pc EXCEPT ![t] = "done"]
  /\ UNCHANGED <<_python_version, start_method, engineVars, slotVars, wrapVars, histVars,
                 current_method>>

\* lines 97-105: except RuntimeError
RaceExcept(t) ==
  /\ pc[t] = "except"
  /\ LET h == handle_error(AlreadySet, FALSE)
     IN  /\ _initialized' =
              IF h.init THEN mark(_initialized, FALSE) ELSE _initialized
         /\ ret' = [ret EXCEPT ![t] = h.ret]
         /\ pc' = [pc EXCEPT ![t] = IF h.caught THEN "done" ELSE "raised"]
  /\ UNCHANGED <<_python_version, start_method, engineVars, slotVars, wrapVars, histVars,
                 current_method>>

NextRace ==
  \E t \in Callers :
    \/ RaceCheck(t)
    \/ RaceGet(t)
    \/ RaceSetCheck(t)
    \/ RaceSetAssign(t)
    \/ RaceMark(t)
    \/ RaceExcept(t)

SpecRace == Init /\ [][NextRace]_vars

(* ============================== properties ============================ *)
CurStatus == get_status(_python_version, start_method, _initialized)
Needs == needs_fork_workaround(_python_version)
FixedNonFork(m) == m # None /\ m # "fork"
AfterInitialize(force) == last_op = "initialize" /\ last_force = force

\* C1: while only unforced initialize() calls were made and no other
\* component changed the start method since the first of them, get_status()
\* equals the get_status() seen after the first call, and every call after
\* the first returned True and changed neither the start method nor
\* _initialized.
C1_InitializeIdempotent ==
  (calls >= 1 /\ quiet) =>
    /\ CurStatus = first_status
    /\ (last_op = "initialize" /\ calls >= 2) =>
          /\ last_ret = TRUE
          /\ ~last_raised
          /\ start_method = pre_method
          /\ _initialized = pre_initialized

C1_Witness ==
  /\ calls >= 3
  /\ quiet
  /\ last_op = "initialize"
  /\ Needs
  /\ first_status.initialized = TRUE

\* C2: a facade call made while get_status() reports compatible=false runs
\* ocr_image_to_text exactly once in the caller's process, dispatches
\* nothing to a worker and returns that call's result.
C2_FacadeInlineWhenIncompatible ==
  [][(/\ last_op' = "ocr"
      /\ inline_calls' + isolated_calls' = inline_calls + isolated_calls + 1
      /\ ~CurStatus.compatible)
     => /\ inline_calls' = inline_calls + 1
        /\ isolated_calls' = isolated_calls
        /\ ocr_ret' = ocr_image_to_text(language, last_image')]_vars

C2_Witness ==
  /\ last_op = "ocr"
  /\ ~CurStatus.compatible
  /\ _initialized
  /\ inline_calls = 1
  /\ ocr_ret = ocr_image_to_text(language, last_image)

\* C3: on a runtime that needs the workaround, with the start method already
\* fixed to a non-fork method, initialize() without force returns True,
\* raises nothing, leaves the start method unchanged, sets _initialized, and
\* get_status() then reports compatible=false.
C3_FixedNonForkAbsorbed ==
  (AfterInitialize(FALSE) /\ Needs /\ FixedNonFork(pre_method)) =>
    /\ last_ret = TRUE
    /\ ~last_raised
    /\ start_method = pre_method
    /\ _initialized
    /\ CurStatus.initialized
    /\ ~CurStatus.compatible

C3_Witness ==
  /\ AfterInitialize(FALSE)
  /\ Needs
  /\ pre_method = "forkserver"
  /\ ~pre_initialized
  /\ _initialized

\* C4: initialize() without force never raises and never returns False,
\* whatever the version, the start method and the flag; when the start method
\* could not be changed this shows only as compatible=false.
C4_UnforcedNeverFails ==
  AfterInitialize(FALSE) =>
    /\ last_ret = TRUE
    /\ ~last_raised
    /\ (Needs /\ FixedNonFork(pre_method)) =>
          (start_method = pre_method /\ ~CurStatus.compatible)

C4_Witness ==
  /\ AfterInitialize(FALSE)
  /\ Needs
  /\ pre_method = "spawn"
  /\ start_method = "spawn"
  /\ last_ret = TRUE

\* the outcome of one uninterrupted initialize() from the state the race
\* started in
SingleCall == initialize(_python_version, pre_method, FALSE, FALSE)
AllDone == \A t \in Callers : pc[t] = "done"

\* C5: concurrent unforced initialize() calls from the uninitialized state:
\* under every interleaving no caller raises, every caller returns True, once
\* _initialized is set the start method is the one a single call leaves
\* (what later callers observe), and when all have returned the start method
\* and get_status() are those after a single call.
C5_RaceSameAsSingleCall ==
  /\ \A t \in Callers : pc[t] # "raised"
  /\ \A t \in Callers : pc[t] = "done" => ret[t] = TRUE
  /\ _initialized => start_method = SingleCall.method
  /\ AllDone =>
        /\ start_method = SingleCall.method
        /\ _initialized = SingleCall.init
        /\ CurStatus =
             get_status(_python_version, SingleCall.method, SingleCall.init)

\* every caller passed the flag test and read the unset start method before
\* any of them set it
C5_Witness ==
  /\ AllDone
  /\ Needs
  /\ pre_method = None
  /\ \A t \in Callers : current_method[t] = None
  /\ start_method = "fork"

C7_ForceRederives ==
  (AfterInitialize(TRUE) /\ pre_initialized) =>
    /\ last_ret = TRUE
    /\ CurStatus.initialized
    /\ CurStatus.compatible
    /\ CurStatus.current_start_method =
         (IF CurStatus.needs_workaround THEN "fork" ELSE pre_method)

C7_Witness ==
  /\ AfterInitialize(TRUE)
  /\ pre_initialized
  /\ Needs
  /\ FixedNonFork(pre_method)
  /\ ~compatible(_python_version, pre_method)
  /\ CurStatus.compatible

\* the version test as the claims state it
AtLeast314 ==
  \/ _python_version[1] > 3
  \/ (_python_version[1] = 3 /\ _python_version[2] >= 14)

\* C8: on every version with major > 3, or major = 3 and minor >= 14,
\* needs_workaround is true; initialize() with the start method unset sets
\* it to 'fork', returns True and get_status() reports compatible=true; with
\* 'fork' already active initialize() leaves the start method and returns
\* True.
C8_WorkaroundSetsFork ==
  AtLeast314 =>
    /\ CurStatus.needs_workaround
    /\ (AfterInitialize(FALSE) /\ pre_method = None) =>
          /\ start_method = "fork"
          /\ last_ret = TRUE
          /\ CurStatus.compatible
    /\ (AfterInitialize(FALSE) /\ pre_method = "fork") =>
          /\ start_method = "fork"
          /\ last_ret = TRUE

C8_Witness ==
  /\ AtLeast314
  /\ _python_version[2] < 14
  /\ AfterInitialize(FALSE)
  /\ pre_method = None
  /\ start_method = "fork"

\* C9: on every version below 3.14, needs_workaround is false, get_status()
\* reports compatible=true whatever the start method, and initialize() with
\* or without force returns True, sets _initialized and leaves the start
\* method as it was.
C9_NoWorkaroundNoMutation ==
  ~AtLeast314 =>
    /\ ~CurStatus.needs_workaround
    /\ CurStatus.compatible
    /\ last_op = "initialize" =>
          /\ last_ret = TRUE
          /\ ~last_raised
          /\ _initialized
          /\ start_method = pre_method

C9_Witness ==
  /\ ~AtLeast314
  /\ AfterInitialize(TRUE)
  /\ FixedNonFork(start_method)
  /\ _initialized

\* C10: the compatible field get_status() returns is true exactly when no
\* workaround is needed or the active start method is 'fork', whatever
\* _initialized is and whatever the last initialize() returned.
C10_CompatibleDerived ==
  last_op = "get_status" =>
    (status.compatible <=> (~AtLeast314 \/ start_method = "fork"))

C10_Witness ==
  /\ last_op = "get_status"
  /\ ~_initialized
  /\ AtLeast314
  /\ start_method = "fork"
  /\ status.compatible

(* -------------------------- engine properties ------------------------- *)
SetOps == {"set_language", "set_language_2", "set_language_3"}
SlotOf(op) ==
  IF op = "set_language" THEN 1 ELSE IF op = "set_language_2" THEN 2 ELSE 3
Held == {i \in 1..3 : Slots[i] \in Languages}

\* C11: set_language, set_language_2 and set_language_3 return True exactly
\* when their argument is one of the engine type's available languages,
\* whatever the slots held.
C11_ReturnsTrueIffAvailable ==
  last_op \in SetOps => (last_ret = TRUE <=> last_arg \in Languages)

C11_Witness ==
  /\ last_op = "set_language_3"
  /\ last_arg = None
  /\ last_ret = FALSE
  /\ pre_slots[3] \in Languages

\* C12 as stated: in every reachable state of an engine instance each of the
\* three slots holds the unset/false value or a supported language.
C12_SlotsUnsetOrSupported ==
  \A i \in 1..3 : Slots[i] \in Languages \cup {None, False, Absent}

\* C13: set_language_2 and set_language_3 called with an unsupported
\* language return False and leave the False sentinel in their slot, not the
\* previous value, and the sentinel differs from a slot never assigned.
C13_InvalidResetsSlot ==
  (last_op \in {"set_language_2", "set_language_3"}
     /\ last_arg \notin Languages) =>
    /\ last_ret = FALSE
    /\ Slots[SlotOf(last_op)] = False
    /\ Slots[SlotOf(last_op)] # Absent

C13_Witness ==
  /\ last_op = "set_language_2"
  /\ last_arg = "xx"
  /\ pre_slots[2] \in Languages
  /\ language_2 = False
  /\ language_3 = Absent

\* C14: set_language called with an unsupported language returns False and
\* leaves slot 1 exactly as it was, also when that value came from the
\* constructor.
C14_InvalidKeepsSlot1 ==
  (last_op = "set_language" /\ last_arg \notin Languages) =>
    /\ last_ret = FALSE
    /\ language = pre_slots[1]

C14_Witness ==
  /\ last_op = "set_language"
  /\ last_arg = "xx"
  /\ last_ret = FALSE
  /\ language = "eng"

\* C15: each setter changes only its own slot, on success and on failure,
\* so setters of different slots commute; on an engine whose
\* support_multiple_languages() is false set_language_2 with a supported
\* language still returns True and fills slot 2.
C15_SlotsIndependent ==
  /\ last_op \in SetOps =>
        \A i \in 1..3 : i # SlotOf(last_op) => Slots[i] = pre_slots[i]
  /\ \A a, b \in LanguageArgs :
        /\ set_language_2(set_language(Slots, a).slots, b).slots
             = set_language(set_language_2(Slots, b).slots, a).slots
        /\ set_language_3(set_language(Slots, a).slots, b).slots
             = set_language(set_language_3(Slots, b).slots, a).slots
        /\ set_language_3(set_language_2(Slots, a).slots, b).slots
             = set_language_2(set_language_3(Slots, b).slots, a).slots
  /\ (~support_multiple /\ last_op = "set_language_2"
        /\ last_arg \in Languages) =>
        (last_ret = TRUE /\ language_2 = last_arg)

C15_Witness ==
  /\ ~support_multiple
  /\ last_op = "set_language_2"
  /\ last_ret = TRUE
  /\ language \in Languages
  /\ language_2 \in Languages
  /\ language_3 = False

\* C16 as stated: on an engine whose support_multiple_languages() is false
\* at most one of the three slots holds a language.
C16_AtMostOneLanguage ==
  ~support_multiple => Cardinality(Held) <= 1

\* C16 amended: on an engine whose support_multiple_languages() is false the
\* setters do not consult the capability: a setter given a supported language
\* returns True and stores it in its slot whatever the other slots hold.
C16_SettersIgnoreCapability ==
  (~support_multiple /\ last_op \in SetOps /\ last_arg \in Languages) =>
    /\ last_ret = TRUE
    /\ Slots[SlotOf(last_op)] = last_arg
    /\ Held = {i \in 1..3 : pre_slots[i] \in Languages} \cup {SlotOf(last_op)}

C16_Witness ==
  /\ ~support_multiple
  /\ last_op = "set_language_2"
  /\ last_ret = TRUE
  /\ Cardinality(Held) = 3

\* C17 as stated: cancel() invoked on an engine instance completes without
\* raising and leaves the three slots unchanged.
C17_CancelNeverFails ==
  last_op = "cancel" => (~last_raised /\ Slots = pre_slots)

(* ------------------- wrapper, flag and frame properties ---------------- *)
\* C18: a call of a function wrapped by ensure_fork_context runs
\* initialize() without force to its end first, then calls the function
\* exactly once with the same arguments, in the state initialize() left, and
\* returns the function's result unchanged.
C18_WrapperInitializesThenCalls ==
  [][(last_op' = "wrapper" /\ calls' = calls + 1) =>
       LET r == initialize(_python_version, start_method, _initialized, FALSE)
       IN  /\ start_method' = r.method
           /\ _initialized' = r.init
           /\ ~last_raised'
           /\ func_calls' = func_calls + 1
           /\ wrapper_ret' = func(last_arg', r.method, r.init)]_vars

C18_Witness ==
  /\ last_op = "wrapper"
  /\ Needs
  /\ pre_method = None
  /\ ~pre_initialized
  /\ func_calls = 1
  /\ wrapper_ret = func(last_arg, "fork", TRUE)

\* C19: once _initialized is true it stays true, under any sequence of
\* initialize() calls with any force values, on any version and with any
\* start method.
C19_InitializedMonotonic ==
  [][_initialized => _initialized']_vars

C19_Witness ==
  /\ AfterInitialize(TRUE)
  /\ pre_initialized
  /\ _initialized
  /\ start_method # pre_method

\* C20: get_status() changes neither the start method nor _initialized, and
\* an initialize() call leaves the start method either as it was or at
\* 'fork'.
C20_OnlyInitializeWritesFork ==
  /\ last_op = "get_status" =>
        (start_method = pre_method /\ _initialized = pre_initialized)
  /\ last_op = "initialize" =>
        (start_method = pre_method \/ start_method = "fork")

C20_Witness ==
  /\ AfterInitialize(FALSE)
  /\ pre_method = None
  /\ start_method = "fork"
  /\ status # NoStatus

====
